---- MODULE Spec2Model ----
(***************************************************************************)
(* The social core of the SocialConnect backend actor                      *)
(* (src/src/backend/main.mo): friend requests, the follow graph, direct    *)
(* messages, groups and group messages, and WebRTC call signalling,        *)
(* together with the conversation view of the messages page                *)
(* (src/unnamed/part_005).                                                 *)
(*                                                                         *)
(* Every public function of the actor is one atomic step: the runtime      *)
(* serialises the calls.  A call that traps changes nothing but `last`,    *)
(* the record of the call that was processed last and of its outcome.      *)
(* Stable maps are functions whose DOMAIN is the set of keys present.      *)
(***************************************************************************)
EXTENDS Integers, Sequences, FiniteSets, TLC

VARIABLES
    friendRequests,      \* Principal -> (Principal -> RequestStatus)
    followers,           \* Principal -> set of Principal
    following,           \* Principal -> set of Principal
    nextMessageId,       \* Nat
    directMessages,      \* Nat -> DirectMessage
    nextGroupId,         \* Nat
    groups,              \* Nat -> Group
    nextGroupMessageId,  \* Nat
    groupMessages,       \* Nat -> GroupMessage
    videoCalls,          \* Text -> VideoCall
    now,                 \* the value Time.now() returns
    last                 \* the last call processed and its outcome

friendVars == <<friendRequests>>
followVars == <<followers, following>>
dmVars     == <<nextMessageId, directMessages>>
groupVars  == <<nextGroupId, groups, nextGroupMessageId, groupMessages>>
callVars   == <<videoCalls>>
stores     == <<friendVars, followVars, dmVars, groupVars, callVars>>
vars       == <<stores, now, last>>

----------------------------------------------------------------------------
(* Bounds of the model and the sets the inputs are drawn from.             *)

MaxMessages      == 2
MaxGroups        == 1
MaxGroupMessages == 1
MaxCandidates    == 1
\* candidates per session where their order and their tags are observed
MaxTagged        == 2
\* groups created where the ids of deleted groups are observed
MaxGroupIds      == 2
\* group messages sent where their ids are compared
MaxGroupMessageIds == 2

\* identities that hold the #user permission, and one that does not
Users      == {"a", "b", "c"}
Anon       == "anon"
Principal  == Users \cup {Anon}
\* the values Time.now() takes
Clock      == {0, 1}
Contents   == {"hi"}
GroupNames == {"g"}
\* identities are opaque and the handlers only compare them: groups are
\* created by one fixed user, or attempted by the identity without permission
Creators   == {"a", Anon}
CallIds    == {"a-b"}
\* two sessions side by side
TwoCallIds == {"a-b", "c-b"}
Sdps       == {"s1", "s2"}
Candidates == {"k"}
\* candidate texts that can be told apart
TaggedCandidates == {"k1", "k2"}

----------------------------------------------------------------------------
(* mo:core Map and option values.                                          *)

EmptyMap == [k \in {} |-> k]

Has(m, k) == k \in DOMAIN m

Put(m, k, v) == [x \in DOMAIN m \cup {k} |-> IF x = k THEN v ELSE m[x]]

Remove(m, k) == [x \in DOMAIN m \ {k} |-> m[x]]

GetOr(m, k, d) == IF Has(m, k) THEN m[k] ELSE d

None == << >>

Some(x) == <<x>>

\* the outcome of an update call: a return value, or a trap and its message
Unit == 0

Ok(r) == [ok |-> TRUE, err |-> "", ret |-> r]

Trap(msg) == [ok |-> FALSE, err |-> msg, ret |-> Unit]

\* the outcome of a query call
QOk(v) == [ok |-> TRUE, err |-> "", val |-> v]

QTrap(msg) == [ok |-> FALSE, err |-> msg, val |-> None]

\* the function called and what it answered
Call(op, res) == [op |-> op, res |-> res]

\* Runtime.trap(msg): the call ends, none of its writes is kept, and the
\* caller gets the message
Reject(op, msg) ==
    /\ last' = Call(op, Trap(msg))
    /\ UNCHANGED <<stores, now>>

\* AccessControl.hasPermission(accessControlState, caller, #user)
hasPermission(caller) == caller \in Users

\* the identities that hold the #admin role, which includes #user
Admins == {"c"}

\* AccessControl.isAdmin(accessControlState, caller)
isAdmin(caller) == caller \in Admins

----------------------------------------------------------------------------
(* Friends                                                                 *)

RequestStatus == {"pending", "accepted", "declined"}

\* friendRequests.get(a) then requests.get(b): None when either is absent
status(fr, a, b) ==
    IF Has(fr, a) /\ Has(fr[a], b) THEN Some(fr[a][b]) ELSE None

\* a faulty getFriends that does not look at the status
getFriends_anyStatus(user) ==
    IF ~Has(friendRequests, user) THEN {} ELSE DOMAIN friendRequests[user]

getFriends(user) ==
    IF ~Has(friendRequests, user) THEN {}
    ELSE {p \in DOMAIN friendRequests[user] :
              friendRequests[user][p] = "accepted"}

\* the model's identities in the order of Principal.compare, the order in
\* which the entries of a map keyed by Principal are visited
PrincipalOrder == <<"a", "anon", "b", "c">>

\* requests.entries().toArray().filter(status == #pending).map(...), the
\* query being served at time t
getPendingFriendRequests(caller, t) ==
    IF ~hasPermission(caller)
    THEN QTrap("Unauthorized: Only users can view friend requests")
    ELSE IF ~Has(friendRequests, caller)
    THEN QOk(<< >>)
    ELSE LET requests   == friendRequests[caller]
             pending(p) == Has(requests, p) /\ requests[p] = "pending"
             kept       == SelectSeq(PrincipalOrder, pending)
         IN  QOk([i \in 1..Len(kept) |-> [from |-> kept[i], timestamp |-> t]])

\* the writes of sendFriendRequest, in the order of the code; a map that is
\* already stored is updated in place
sendFriendRequestWrites(fr, caller, to) ==
    LET userRequests == Put(GetOr(fr, caller, EmptyMap), to, "pending")
        fr1          == IF Has(fr, caller) THEN Put(fr, caller, userRequests)
                        ELSE fr
        toRequests   == Put(GetOr(fr1, to, EmptyMap), caller, "pending")
        fr2          == IF Has(fr1, to) THEN Put(fr1, to, toRequests) ELSE fr1
    IN  Put(Put(fr2, caller, userRequests), to, toRequests)

\* a faulty sendFriendRequest that refuses a pair which has a status already
sendFriendRequest_onlyOnce(caller, to) ==
    IF ~hasPermission(caller)
    THEN Reject("sendFriendRequest",
                "Unauthorized: Only users can send friend requests")
    ELSE IF to = caller
    THEN Reject("sendFriendRequest", "Cannot send friend request to yourself")
    ELSE IF status(friendRequests, caller, to) # None
    THEN Reject("sendFriendRequest", "Friend request already exists")
    ELSE /\ friendRequests' = sendFriendRequestWrites(friendRequests, caller, to)
         /\ last' = Call("sendFriendRequest", Ok(Unit))
         /\ UNCHANGED <<followVars, dmVars, groupVars, callVars, now>>

sendFriendRequest(caller, to) ==
    IF ~hasPermission(caller)
    THEN Reject("sendFriendRequest",
                "Unauthorized: Only users can send friend requests")
    ELSE IF to = caller
    THEN Reject("sendFriendRequest", "Cannot send friend request to yourself")
    ELSE /\ friendRequests' = sendFriendRequestWrites(friendRequests, caller, to)
         /\ last' = Call("sendFriendRequest", Ok(Unit))
         /\ UNCHANGED <<followVars, dmVars, groupVars, callVars, now>>

\* a faulty respondWrites that leaves out the mirrored write
respondWrites_callerOnly(fr, caller, from, accept) ==
    Put(fr, caller,
        Put(fr[caller], from, IF accept THEN "accepted" ELSE "declined"))

\* a faulty respondWrites that mirrors an acceptance only
respondWrites_declineUnmirrored(fr, caller, from, accept) ==
    LET s   == IF accept THEN "accepted" ELSE "declined"
        fr1 == Put(fr, caller, Put(fr[caller], from, s))
    IN  IF accept
        THEN Put(fr1, from, Put(GetOr(fr1, from, EmptyMap), caller, s))
        ELSE fr1

\* the writes of respondToFriendRequest's #pending branch
respondWrites(fr, caller, from, accept) ==
    LET s            == IF accept THEN "accepted" ELSE "declined"
        fr1          == Put(fr, caller, Put(fr[caller], from, s))
        fromRequests == Put(GetOr(fr1, from, EmptyMap), caller, s)
    IN  Put(fr1, from, fromRequests)

\* a faulty respondToFriendRequest that answers an entry whatever its status
respondToFriendRequest_noStatusCheck(caller, from, accept) ==
    IF ~hasPermission(caller)
    THEN Reject("respondToFriendRequest",
                "Unauthorized: Only users can respond to friend requests")
    ELSE IF ~Has(friendRequests, caller)
    THEN Reject("respondToFriendRequest", "No friend requests found")
    ELSE IF ~Has(friendRequests[caller], from)
    THEN Reject("respondToFriendRequest",
                "No pending friend request from this user")
    ELSE /\ friendRequests' =
                LET s   == IF accept THEN "accepted" ELSE "declined"
                    fr1 == Put(friendRequests, caller,
                               Put(friendRequests[caller], from, s))
                IN  Put(fr1, from, Put(GetOr(fr1, from, EmptyMap), caller, s))
         /\ last' = Call("respondToFriendRequest", Ok(Unit))
         /\ UNCHANGED <<followVars, dmVars, groupVars, callVars, now>>

respondToFriendRequest(caller, from, accept) ==
    IF ~hasPermission(caller)
    THEN Reject("respondToFriendRequest",
                "Unauthorized: Only users can respond to friend requests")
    ELSE IF ~Has(friendRequests, caller)
    THEN Reject("respondToFriendRequest", "No friend requests found")
    ELSE IF ~Has(friendRequests[caller], from)
    THEN Reject("respondToFriendRequest",
                "No pending friend request from this user")
    ELSE IF friendRequests[caller][from] = "pending"
    THEN /\ friendRequests' = respondWrites(friendRequests, caller, from, accept)
         /\ last' = Call("respondToFriendRequest", Ok(Unit))
         /\ UNCHANGED <<followVars, dmVars, groupVars, callVars, now>>
    ELSE Reject("respondToFriendRequest", "Friend request already processed")

----------------------------------------------------------------------------
(* Followers                                                               *)

getFollowers(user) == GetOr(followers, user, {})

getFollowing(user) == GetOr(following, user, {})

\* followUser's two writes: the target's followers, the caller's following
followWrites(fs, caller, user) ==
    <<Put(fs[1], user, GetOr(fs[1], user, {}) \cup {caller}),
      Put(fs[2], caller, GetOr(fs[2], caller, {}) \cup {user})>>

followUser(caller, user) ==
    IF ~hasPermission(caller)
    THEN Reject("followUser", "Unauthorized: Only users can follow others")
    ELSE IF user = caller
    THEN Reject("followUser", "Cannot follow yourself")
    ELSE /\ followers' = followWrites(<<followers, following>>, caller, user)[1]
         /\ following' = followWrites(<<followers, following>>, caller, user)[2]
         /\ last' = Call("followUser", Ok(Unit))
         /\ UNCHANGED <<friendVars, dmVars, groupVars, callVars, now>>

\* a faulty unfollowWrites that forgets the caller's following set
unfollowWrites_followersOnly(fs, caller, user) ==
    <<IF Has(fs[1], user) THEN Put(fs[1], user, fs[1][user] \ {caller})
      ELSE fs[1],
      fs[2]>>

\* unfollowUser's two removals, each only from a set that exists
unfollowWrites(fs, caller, user) ==
    <<IF Has(fs[1], user) THEN Put(fs[1], user, fs[1][user] \ {caller})
      ELSE fs[1],
      IF Has(fs[2], caller) THEN Put(fs[2], caller, fs[2][caller] \ {user})
      ELSE fs[2]>>

unfollowUser(caller, user) ==
    IF ~hasPermission(caller)
    THEN Reject("unfollowUser", "Unauthorized: Only users can unfollow others")
    ELSE /\ followers' = unfollowWrites(<<followers, following>>, caller, user)[1]
         /\ following' = unfollowWrites(<<followers, following>>, caller, user)[2]
         /\ last' = Call("unfollowUser", Ok(Unit))
         /\ UNCHANGED <<friendVars, dmVars, groupVars, callVars, now>>

----------------------------------------------------------------------------
(* Direct messages                                                         *)

\* map.values().toArray(): the values in ascending order of their keys, the
\* order in which the iterators of an ordered map visit the entries
Values(m) ==
    [i \in 1..Cardinality(DOMAIN m) |->
        m[CHOOSE k \in DOMAIN m :
              Cardinality({j \in DOMAIN m : j < k}) = i - 1]]

\* a faulty sendMessage that does not advance the counter
sendMessage_noIncrement(caller, recipientId, content, t) ==
    IF ~hasPermission(caller)
    THEN Reject("sendMessage", "Unauthorized: Only users can send messages")
    ELSE LET messageId == nextMessageId
             message   == [id |-> messageId, senderId |-> caller,
                           recipientId |-> recipientId, content |-> content,
                           timestamp |-> t, read |-> FALSE]
         IN  /\ nextMessageId' = nextMessageId
             /\ directMessages' = Put(directMessages, messageId, message)
             /\ now' = t
             /\ last' = Call("sendMessage", Ok(messageId))
             /\ UNCHANGED <<friendVars, followVars, groupVars, callVars>>

sendMessage(caller, recipientId, content, t) ==
    IF ~hasPermission(caller)
    THEN Reject("sendMessage", "Unauthorized: Only users can send messages")
    ELSE LET messageId == nextMessageId
             message   == [id |-> messageId, senderId |-> caller,
                           recipientId |-> recipientId, content |-> content,
                           timestamp |-> t, read |-> FALSE]
         IN  /\ nextMessageId' = nextMessageId + 1
             /\ directMessages' = Put(directMessages, messageId, message)
             /\ now' = t
             /\ last' = Call("sendMessage", Ok(messageId))
             /\ UNCHANGED <<friendVars, followVars, groupVars, callVars>>

\* a faulty filter that tests one endpoint of the message only
inConversation_oneEndpoint(msg, caller, otherUser) ==
    msg.senderId = caller \/ msg.recipientId = caller

\* the filter of getConversation
inConversation(msg, caller, otherUser) ==
    \/ msg.senderId = caller /\ msg.recipientId = otherUser
    \/ msg.senderId = otherUser /\ msg.recipientId = caller

getConversation(caller, otherUser) ==
    IF ~hasPermission(caller)
    THEN QTrap("Unauthorized: Only users can view conversations")
    ELSE LET keep(msg) == inConversation(msg, caller, otherUser)
         IN  QOk(SelectSeq(Values(directMessages), keep))

getConversations(caller) ==
    IF ~hasPermission(caller)
    THEN QTrap("Unauthorized: Only users can view conversations")
    ELSE QOk({directMessages[i].recipientId : i \in
                  {j \in DOMAIN directMessages :
                       directMessages[j].senderId = caller}}
             \cup
             {directMessages[i].senderId : i \in
                  {j \in DOMAIN directMessages :
                       /\ directMessages[j].senderId # caller
                       /\ directMessages[j].recipientId = caller}})

\* a faulty loop that marks what the caller sent, not what the caller received
markReadWrites_swapped(dm, caller, otherUser) ==
    [id \in DOMAIN dm |->
        IF /\ dm[id].senderId = caller
           /\ dm[id].recipientId = otherUser
           /\ ~dm[id].read
        THEN [dm[id] EXCEPT !.read = TRUE]
        ELSE dm[id]]

\* a faulty loop that flips the flag of every message received from otherUser
markReadWrites_toggle(dm, caller, otherUser) ==
    [id \in DOMAIN dm |->
        IF dm[id].senderId = otherUser /\ dm[id].recipientId = caller
        THEN [dm[id] EXCEPT !.read = ~@]
        ELSE dm[id]]

\* a faulty loop that stamps the message with the time of reading
markReadWrites_restamped(dm, caller, otherUser) ==
    [id \in DOMAIN dm |->
        IF /\ dm[id].senderId = otherUser
           /\ dm[id].recipientId = caller
           /\ ~dm[id].read
        THEN [dm[id] EXCEPT !.read = TRUE, !.timestamp = now]
        ELSE dm[id]]

\* the loop of markConversationRead over directMessages.entries()
markReadWrites(dm, caller, otherUser) ==
    [id \in DOMAIN dm |->
        IF /\ dm[id].senderId = otherUser
           /\ dm[id].recipientId = caller
           /\ ~dm[id].read
        THEN [dm[id] EXCEPT !.read = TRUE]
        ELSE dm[id]]

markConversationRead(caller, otherUser) ==
    IF ~hasPermission(caller)
    THEN Reject("markConversationRead",
                "Unauthorized: Only users can mark conversations as read")
    ELSE /\ directMessages' = markReadWrites(directMessages, caller, otherUser)
         /\ last' = Call("markConversationRead", Ok(Unit))
         /\ UNCHANGED <<nextMessageId, friendVars, followVars, groupVars,
                        callVars, now>>

\* the counting loop of getUnreadMessageCount over directMessages.values()
RECURSIVE countUnread(_, _)
countUnread(msgs, caller) ==
    IF msgs = << >> THEN 0
    ELSE (IF Head(msgs).recipientId = caller /\ ~Head(msgs).read THEN 1 ELSE 0)
         + countUnread(Tail(msgs), caller)

getUnreadMessageCount(caller) ==
    IF ~hasPermission(caller)
    THEN QTrap("Unauthorized: Only users can view unread message count")
    ELSE QOk(countUnread(Values(directMessages), caller))

\* a faulty comparator with its operands exchanged
compareTimestamp_reversed(a, b) == b.timestamp - a.timestamp

\* the comparator of ConversationThread's sort: Number(a.timestamp - b.timestamp)
compareTimestamp(a, b) == a.timestamp - b.timestamp

\* Array.prototype.sort with that comparator: stable, ascending
RECURSIVE InsertSorted(_, _)
InsertSorted(sorted, x) ==
    IF sorted = << >> THEN <<x>>
    ELSE IF compareTimestamp(sorted[Len(sorted)], x) <= 0
    THEN Append(sorted, x)
    ELSE Append(InsertSorted(SubSeq(sorted, 1, Len(sorted) - 1), x),
                sorted[Len(sorted)])

RECURSIVE SortFrom(_, _)
SortFrom(xs, acc) ==
    IF xs = << >> THEN acc
    ELSE SortFrom(Tail(xs), InsertSorted(acc, Head(xs)))

\* ConversationThread: const sortedMessages = [...messages].sort(...)
sortedMessages(messages) == SortFrom(messages, << >>)

\* what the conversation thread of `caller` with `otherUser` shows
ConversationThread(caller, otherUser) ==
    sortedMessages(getConversation(caller, otherUser).val)

----------------------------------------------------------------------------
(* Groups and group messages                                               *)

\* memberIds.any(func(m) { m == p })
isMember(group, p) == \E i \in 1..Len(group.memberIds) : group.memberIds[i] = p

\* a faulty createGroup that takes the id from the number of stored groups
createGroup_sizeAsId(caller, name, t) ==
    IF ~hasPermission(caller)
    THEN Reject("createGroup", "Unauthorized: Only users can create groups")
    ELSE LET groupId == Cardinality(DOMAIN groups)
             group   == [id |-> groupId, name |-> name, creatorId |-> caller,
                         memberIds |-> <<caller>>, createdAt |-> t]
         IN  /\ nextGroupId' = nextGroupId + 1
             /\ groups' = Put(groups, groupId, group)
             /\ now' = t
             /\ last' = Call("createGroup", Ok(groupId))
             /\ UNCHANGED <<nextGroupMessageId, groupMessages, friendVars,
                            followVars, dmVars, callVars>>

createGroup(caller, name, t) ==
    IF ~hasPermission(caller)
    THEN Reject("createGroup", "Unauthorized: Only users can create groups")
    ELSE LET groupId == nextGroupId
             group   == [id |-> groupId, name |-> name, creatorId |-> caller,
                         memberIds |-> <<caller>>, createdAt |-> t]
         IN  /\ nextGroupId' = nextGroupId + 1
             /\ groups' = Put(groups, groupId, group)
             /\ now' = t
             /\ last' = Call("createGroup", Ok(groupId))
             /\ UNCHANGED <<nextGroupMessageId, groupMessages, friendVars,
                            followVars, dmVars, callVars>>

getMyGroups(caller) ==
    IF ~hasPermission(caller)
    THEN QTrap("Unauthorized: Only users can view their groups")
    ELSE LET mine(g) == isMember(g, caller)
         IN  QOk(SelectSeq(Values(groups), mine))

\* a faulty getGroupById that answers a caller who is not a member as if the
\* group did not exist
getGroupById_nullForStranger(caller, groupId) ==
    IF ~hasPermission(caller)
    THEN QTrap("Unauthorized: Only users can view groups")
    ELSE IF ~Has(groups, groupId)
    THEN QOk(None)
    ELSE IF ~isMember(groups[groupId], caller)
    THEN QOk(None)
    ELSE QOk(Some(groups[groupId]))

getGroupById(caller, groupId) ==
    IF ~hasPermission(caller)
    THEN QTrap("Unauthorized: Only users can view groups")
    ELSE IF ~Has(groups, groupId)
    THEN QOk(None)
    ELSE IF ~isMember(groups[groupId], caller)
    THEN QTrap("Unauthorized: Only group members can view this group")
    ELSE QOk(Some(groups[groupId]))

\* a faulty addGroupMember without the test for an existing member
addGroupMember_noMemberCheck(caller, groupId, memberId) ==
    IF ~hasPermission(caller)
    THEN Reject("addGroupMember",
                "Unauthorized: Only users can add group members")
    ELSE IF ~Has(groups, groupId)
    THEN Reject("addGroupMember", "Group not found")
    ELSE IF groups[groupId].creatorId # caller
    THEN Reject("addGroupMember",
                "Unauthorized: Only the group creator can add members")
    ELSE LET newMembers == groups[groupId].memberIds \o <<memberId>>
         IN  /\ groups' = Put(groups, groupId,
                              [groups[groupId] EXCEPT !.memberIds = newMembers])
             /\ last' = Call("addGroupMember", Ok(Unit))
             /\ UNCHANGED <<nextGroupId, nextGroupMessageId, groupMessages,
                            friendVars, followVars, dmVars, callVars, now>>

\* a faulty addGroupMember that appends first and reports the duplicate
\* afterwards with an error that does not undo the write
addGroupMember_throwAfterWrite(caller, groupId, memberId) ==
    IF ~hasPermission(caller)
    THEN Reject("addGroupMember",
                "Unauthorized: Only users can add group members")
    ELSE IF ~Has(groups, groupId)
    THEN Reject("addGroupMember", "Group not found")
    ELSE IF groups[groupId].creatorId # caller
    THEN Reject("addGroupMember",
                "Unauthorized: Only the group creator can add members")
    ELSE /\ groups' = Put(groups, groupId,
                          [groups[groupId] EXCEPT
                               !.memberIds = @ \o <<memberId>>])
         /\ last' = Call("addGroupMember",
                         IF isMember(groups[groupId], memberId)
                         THEN Trap("User is already a member") ELSE Ok(Unit))
         /\ UNCHANGED <<nextGroupId, nextGroupMessageId, groupMessages,
                        friendVars, followVars, dmVars, callVars, now>>

addGroupMember(caller, groupId, memberId) ==
    IF ~hasPermission(caller)
    THEN Reject("addGroupMember",
                "Unauthorized: Only users can add group members")
    ELSE IF ~Has(groups, groupId)
    THEN Reject("addGroupMember", "Group not found")
    ELSE IF groups[groupId].creatorId # caller
    THEN Reject("addGroupMember",
                "Unauthorized: Only the group creator can add members")
    ELSE IF isMember(groups[groupId], memberId)
    THEN Reject("addGroupMember", "User is already a member")
    ELSE LET newMembers == groups[groupId].memberIds \o <<memberId>>
         IN  /\ groups' = Put(groups, groupId,
                              [groups[groupId] EXCEPT !.memberIds = newMembers])
             /\ last' = Call("addGroupMember", Ok(Unit))
             /\ UNCHANGED <<nextGroupId, nextGroupMessageId, groupMessages,
                            friendVars, followVars, dmVars, callVars, now>>

\* memberIds.filter(func(m) { m != memberId })
removeMemberFilter(memberIds, memberId) ==
    LET keep(m) == m # memberId IN SelectSeq(memberIds, keep)

removeGroupMember(caller, groupId, memberId) ==
    IF ~hasPermission(caller)
    THEN Reject("removeGroupMember",
                "Unauthorized: Only users can remove group members")
    ELSE IF ~Has(groups, groupId)
    THEN Reject("removeGroupMember", "Group not found")
    ELSE IF groups[groupId].creatorId # caller
    THEN Reject("removeGroupMember",
                "Unauthorized: Only the group creator can remove members")
    ELSE LET newMembers == removeMemberFilter(groups[groupId].memberIds, memberId)
         IN  /\ groups' = Put(groups, groupId,
                              [groups[groupId] EXCEPT !.memberIds = newMembers])
             /\ last' = Call("removeGroupMember", Ok(Unit))
             /\ UNCHANGED <<nextGroupId, nextGroupMessageId, groupMessages,
                            friendVars, followVars, dmVars, callVars, now>>

\* a faulty deleteGroup that asks for membership instead of authorship
deleteGroup_anyMember(caller, groupId) ==
    IF ~hasPermission(caller)
    THEN Reject("deleteGroup", "Unauthorized: Only users can delete groups")
    ELSE IF ~Has(groups, groupId)
    THEN Reject("deleteGroup", "Group not found")
    ELSE IF ~isMember(groups[groupId], caller) /\ ~isAdmin(caller)
    THEN Reject("deleteGroup",
                "Unauthorized: Only the group creator or admin can delete this group")
    ELSE /\ groups' = Remove(groups, groupId)
         /\ last' = Call("deleteGroup", Ok(Unit))
         /\ UNCHANGED <<nextGroupId, nextGroupMessageId, groupMessages,
                        friendVars, followVars, dmVars, callVars, now>>

deleteGroup(caller, groupId) ==
    IF ~hasPermission(caller)
    THEN Reject("deleteGroup", "Unauthorized: Only users can delete groups")
    ELSE IF ~Has(groups, groupId)
    THEN Reject("deleteGroup", "Group not found")
    ELSE IF groups[groupId].creatorId # caller /\ ~isAdmin(caller)
    THEN Reject("deleteGroup",
                "Unauthorized: Only the group creator or admin can delete this group")
    ELSE /\ groups' = Remove(groups, groupId)
         /\ last' = Call("deleteGroup", Ok(Unit))
         /\ UNCHANGED <<nextGroupId, nextGroupMessageId, groupMessages,
                        friendVars, followVars, dmVars, callVars, now>>

\* a faulty sendGroupMessage that only asks for the group to exist
sendGroupMessage_noMemberCheck(caller, groupId, content, t) ==
    IF ~hasPermission(caller)
    THEN Reject("sendGroupMessage",
                "Unauthorized: Only users can send group messages")
    ELSE IF ~Has(groups, groupId)
    THEN Reject("sendGroupMessage", "Group not found")
    ELSE LET messageId == nextGroupMessageId
             message   == [id |-> messageId, groupId |-> groupId,
                           senderId |-> caller, content |-> content,
                           timestamp |-> t]
         IN  /\ nextGroupMessageId' = nextGroupMessageId + 1
             /\ groupMessages' = Put(groupMessages, messageId, message)
             /\ now' = t
             /\ last' = Call("sendGroupMessage", Ok(messageId))
             /\ UNCHANGED <<nextGroupId, groups, friendVars, followVars,
                            dmVars, callVars>>

sendGroupMessage(caller, groupId, content, t) ==
    IF ~hasPermission(caller)
    THEN Reject("sendGroupMessage",
                "Unauthorized: Only users can send group messages")
    ELSE IF ~Has(groups, groupId)
    THEN Reject("sendGroupMessage", "Group not found")
    ELSE IF ~isMember(groups[groupId], caller)
    THEN Reject("sendGroupMessage",
                "Unauthorized: Only group members can send messages")
    ELSE LET messageId == nextGroupMessageId
             message   == [id |-> messageId, groupId |-> groupId,
                           senderId |-> caller, content |-> content,
                           timestamp |-> t]
         IN  /\ nextGroupMessageId' = nextGroupMessageId + 1
             /\ groupMessages' = Put(groupMessages, messageId, message)
             /\ now' = t
             /\ last' = Call("sendGroupMessage", Ok(messageId))
             /\ UNCHANGED <<nextGroupId, groups, friendVars, followVars,
                            dmVars, callVars>>

getGroupMessages(caller, groupId) ==
    IF ~hasPermission(caller)
    THEN QTrap("Unauthorized: Only users can read group messages")
    ELSE IF ~Has(groups, groupId)
    THEN QTrap("Group not found")
    ELSE IF ~isMember(groups[groupId], caller)
    THEN QTrap("Unauthorized: Only group members can read messages")
    ELSE LET ofGroup(msg) == msg.groupId = groupId
         IN  QOk(SelectSeq(Values(groupMessages), ofGroup))

----------------------------------------------------------------------------
(* WebRTC signalling                                                       *)

\* call.offer.caller != caller and call.offer.callee != caller
notParticipant(call, caller) ==
    call.offer.caller # caller /\ call.offer.callee # caller

\* a faulty storeCallOffer that keeps the answer and the candidates of a
\* session that exists
storeCallOffer_merge(caller, callId, sdp, callee) ==
    IF ~hasPermission(caller)
    THEN Reject("storeCallOffer",
                "Unauthorized: Only users can store call offers")
    ELSE LET offer     == [sdp |-> sdp, caller |-> caller, callee |-> callee]
             videoCall == IF Has(videoCalls, callId)
                          THEN [videoCalls[callId] EXCEPT !.offer = offer]
                          ELSE [offer |-> offer, answer |-> None,
                                candidates |-> << >>]
         IN  /\ videoCalls' = Put(videoCalls, callId, videoCall)
             /\ last' = Call("storeCallOffer", Ok(Unit))
             /\ UNCHANGED <<friendVars, followVars, dmVars, groupVars, now>>

storeCallOffer(caller, callId, sdp, callee) ==
    IF ~hasPermission(caller)
    THEN Reject("storeCallOffer",
                "Unauthorized: Only users can store call offers")
    ELSE LET offer     == [sdp |-> sdp, caller |-> caller, callee |-> callee]
             videoCall == [offer |-> offer, answer |-> None,
                           candidates |-> << >>]
         IN  /\ videoCalls' = Put(videoCalls, callId, videoCall)
             /\ last' = Call("storeCallOffer", Ok(Unit))
             /\ UNCHANGED <<friendVars, followVars, dmVars, groupVars, now>>

getCallOffer(caller, callId) ==
    IF ~hasPermission(caller)
    THEN QTrap("Unauthorized: Only users can get call offers")
    ELSE IF ~Has(videoCalls, callId)
    THEN QOk(None)
    ELSE IF notParticipant(videoCalls[callId], caller)
    THEN QTrap("Unauthorized: Only call participants can view this offer")
    ELSE QOk(Some(videoCalls[callId].offer))

\* a faulty storeCallAnswer that builds the session anew, as storeCallOffer
\* does, and so drops the candidates
storeCallAnswer_freshSession(caller, callId, sdp) ==
    IF ~hasPermission(caller)
    THEN Reject("storeCallAnswer",
                "Unauthorized: Only users can store call answers")
    ELSE IF ~Has(videoCalls, callId)
    THEN Reject("storeCallAnswer", "Call not found")
    ELSE IF videoCalls[callId].offer.callee # caller
    THEN Reject("storeCallAnswer",
                "Unauthorized: Only the callee can answer this call")
    ELSE LET call   == videoCalls[callId]
             answer == [sdp |-> sdp, callee |-> caller,
                        caller |-> call.offer.caller]
         IN  /\ videoCalls' = Put(videoCalls, callId,
                                  [offer |-> call.offer,
                                   answer |-> Some(answer),
                                   candidates |-> << >>])
             /\ last' = Call("storeCallAnswer", Ok(Unit))
             /\ UNCHANGED <<friendVars, followVars, dmVars, groupVars, now>>

storeCallAnswer(caller, callId, sdp) ==
    IF ~hasPermission(caller)
    THEN Reject("storeCallAnswer",
                "Unauthorized: Only users can store call answers")
    ELSE IF ~Has(videoCalls, callId)
    THEN Reject("storeCallAnswer", "Call not found")
    ELSE IF videoCalls[callId].offer.callee # caller
    THEN Reject("storeCallAnswer",
                "Unauthorized: Only the callee can answer this call")
    ELSE LET call   == videoCalls[callId]
             answer == [sdp |-> sdp, callee |-> caller,
                        caller |-> call.offer.caller]
         IN  /\ videoCalls' = Put(videoCalls, callId,
                                  [call EXCEPT !.answer = Some(answer)])
             /\ last' = Call("storeCallAnswer", Ok(Unit))
             /\ UNCHANGED <<friendVars, followVars, dmVars, groupVars, now>>

getCallAnswer(caller, callId) ==
    IF ~hasPermission(caller)
    THEN QTrap("Unauthorized: Only users can get call answers")
    ELSE IF ~Has(videoCalls, callId)
    THEN QOk(None)
    ELSE IF notParticipant(videoCalls[callId], caller)
    THEN QTrap("Unauthorized: Only call participants can view this answer")
    ELSE QOk(videoCalls[callId].answer)

addICECandidate(caller, callId, candidate) ==
    IF ~hasPermission(caller)
    THEN Reject("addICECandidate",
                "Unauthorized: Only users can add ICE candidates")
    ELSE IF ~Has(videoCalls, callId)
    THEN Reject("addICECandidate", "Call not found")
    ELSE IF notParticipant(videoCalls[callId], caller)
    THEN Reject("addICECandidate",
                "Unauthorized: Only call participants can add ICE candidates")
    ELSE LET call          == videoCalls[callId]
             iceCandidate  == [candidate |-> candidate, tenant |-> caller]
             newCandidates == call.candidates \o <<iceCandidate>>
         IN  /\ videoCalls' = Put(videoCalls, callId,
                                  [call EXCEPT !.candidates = newCandidates])
             /\ last' = Call("addICECandidate", Ok(Unit))
             /\ UNCHANGED <<friendVars, followVars, dmVars, groupVars, now>>

\* a faulty getICECandidates that does not look at the tenant
getICECandidates_anyTenant(caller, callId, forPrincipal) ==
    IF ~hasPermission(caller)
    THEN QTrap("Unauthorized: Only users can get ICE candidates")
    ELSE IF ~Has(videoCalls, callId)
    THEN QOk(<< >>)
    ELSE IF notParticipant(videoCalls[callId], caller)
    THEN QTrap("Unauthorized: Only call participants can view ICE candidates")
    ELSE LET kept == videoCalls[callId].candidates
         IN  QOk([i \in 1..Len(kept) |-> kept[i].candidate])

getICECandidates(caller, callId, forPrincipal) ==
    IF ~hasPermission(caller)
    THEN QTrap("Unauthorized: Only users can get ICE candidates")
    ELSE IF ~Has(videoCalls, callId)
    THEN QOk(<< >>)
    ELSE IF notParticipant(videoCalls[callId], caller)
    THEN QTrap("Unauthorized: Only call participants can view ICE candidates")
    ELSE LET byTenant(c) == c.tenant = forPrincipal
             kept        == SelectSeq(videoCalls[callId].candidates, byTenant)
         IN  QOk([i \in 1..Len(kept) |-> kept[i].candidate])

\* a faulty endCall that only the maker of the offer may use
endCall_offererOnly(caller, callId) ==
    IF ~hasPermission(caller)
    THEN Reject("endCall", "Unauthorized: Only users can end calls")
    ELSE IF ~Has(videoCalls, callId)
    THEN Reject("endCall", "Call not found")
    ELSE IF videoCalls[callId].offer.caller # caller
    THEN Reject("endCall",
                "Unauthorized: Only call participants can end this call")
    ELSE /\ videoCalls' = Remove(videoCalls, callId)
         /\ last' = Call("endCall", Ok(Unit))
         /\ UNCHANGED <<friendVars, followVars, dmVars, groupVars, now>>

endCall(caller, callId) ==
    IF ~hasPermission(caller)
    THEN Reject("endCall", "Unauthorized: Only users can end calls")
    ELSE IF ~Has(videoCalls, callId)
    THEN Reject("endCall", "Call not found")
    ELSE IF notParticipant(videoCalls[callId], caller)
    THEN Reject("endCall",
                "Unauthorized: Only call participants can end this call")
    ELSE /\ videoCalls' = Remove(videoCalls, callId)
         /\ last' = Call("endCall", Ok(Unit))
         /\ UNCHANGED <<friendVars, followVars, dmVars, groupVars, now>>

----------------------------------------------------------------------------
Init ==
    /\ friendRequests = EmptyMap
    /\ followers = EmptyMap
    /\ following = EmptyMap
    /\ nextMessageId = 0
    /\ directMessages = EmptyMap
    /\ nextGroupId = 0
    /\ groups = EmptyMap
    /\ nextGroupMessageId = 0
    /\ groupMessages = EmptyMap
    /\ videoCalls = EmptyMap
    /\ now = 0
    /\ last = Call("init", Ok(Unit))

\* the group ids a caller may name: those allocated and the next one
GroupIds == 0..nextGroupId

\* whether a session can take one more candidate within the bound
CandidateRoom(callId) ==
    Has(videoCalls, callId) => Len(videoCalls[callId].candidates) < MaxCandidates

NextFriend ==
    \/ \E caller \in Principal, to \in Users : sendFriendRequest(caller, to)
    \/ \E caller \in Principal, from \in Users, accept \in BOOLEAN :
           respondToFriendRequest(caller, from, accept)

NextFollow ==
    \/ \E caller \in Principal, user \in Users : followUser(caller, user)
    \/ \E caller \in Principal, user \in Users : unfollowUser(caller, user)

\* Time.now() returns t: time does not go back
NextDM ==
    \/ \E caller \in Principal, recipientId \in Users, content \in Contents,
          t \in {x \in Clock : x >= now} :
           nextMessageId < MaxMessages
               /\ sendMessage(caller, recipientId, content, t)
    \/ \E caller \in Principal, otherUser \in Users :
           markConversationRead(caller, otherUser)

\* no time passes between the calls to the group functions
NextGroup ==
    \/ \E caller \in Creators, name \in GroupNames, t \in {now} :
           nextGroupId < MaxGroups /\ createGroup(caller, name, t)
    \/ \E caller \in Principal, groupId \in GroupIds, memberId \in Users :
           addGroupMember(caller, groupId, memberId)
    \/ \E caller \in Principal, groupId \in GroupIds, memberId \in Users :
           removeGroupMember(caller, groupId, memberId)
    \/ \E caller \in Principal, groupId \in GroupIds :
           deleteGroup(caller, groupId)
    \/ \E caller \in Principal, groupId \in GroupIds, content \in Contents,
          t \in {now} :
           nextGroupMessageId < MaxGroupMessages
               /\ sendGroupMessage(caller, groupId, content, t)

NextCall ==
    \/ \E caller \in Principal, callId \in CallIds, sdp \in Sdps,
          callee \in Users : storeCallOffer(caller, callId, sdp, callee)
    \/ \E caller \in Principal, callId \in CallIds, sdp \in Sdps :
           storeCallAnswer(caller, callId, sdp)
    \/ \E caller \in Principal, callId \in CallIds, candidate \in Candidates :
           CandidateRoom(callId) /\ addICECandidate(caller, callId, candidate)
    \/ \E caller \in Principal, callId \in CallIds : endCall(caller, callId)

\* The components share no store: every action leaves the variables of the
\* other components unchanged.  The whole core is therefore explored one
\* component at a time, a component's calls being served while the stores of
\* the other components are as the actor's construction left them.
FriendIdle == friendRequests = EmptyMap

FollowIdle == followers = EmptyMap /\ following = EmptyMap

DMIdle == nextMessageId = 0

GroupIdle == nextGroupId = 0 /\ nextGroupMessageId = 0

CallIdle == videoCalls = EmptyMap

Next ==
    \/ FollowIdle /\ DMIdle /\ GroupIdle /\ CallIdle /\ NextFriend
    \/ FriendIdle /\ DMIdle /\ GroupIdle /\ CallIdle /\ NextFollow
    \/ FriendIdle /\ FollowIdle /\ GroupIdle /\ CallIdle /\ NextDM
    \/ FriendIdle /\ FollowIdle /\ DMIdle /\ CallIdle /\ NextGroup
    \/ FriendIdle /\ FollowIdle /\ DMIdle /\ GroupIdle /\ NextCall

Spec == Init /\ [][Next]_vars

SpecFriend == Init /\ [][NextFriend]_vars

SpecFollow == Init /\ [][NextFollow]_vars

SpecDM == Init /\ [][NextDM]_vars

SpecGroup == Init /\ [][NextGroup]_vars

SpecCall == Init /\ [][NextCall]_vars

\* the life of several groups: created by the fixed creator, joined by one
\* further member, written to and deleted
NextGroupIds ==
    \/ \E caller \in Creators, name \in GroupNames, t \in {now} :
           nextGroupId < MaxGroupIds /\ createGroup(caller, name, t)
    \/ \E caller \in Principal, groupId \in GroupIds, memberId \in {"b"} :
           addGroupMember(caller, groupId, memberId)
    \/ \E caller \in Principal, groupId \in GroupIds :
           deleteGroup(caller, groupId)
    \/ \E caller \in Principal, groupId \in GroupIds, content \in Contents,
          t \in {now} :
           nextGroupMessageId < MaxGroupMessages
               /\ sendGroupMessage(caller, groupId, content, t)

SpecGroupIds == Init /\ [][NextGroupIds]_vars

\* whether a session can take one more candidate within the larger bound
TaggedRoom(callId) ==
    Has(videoCalls, callId) => Len(videoCalls[callId].candidates) < MaxTagged

\* the exchange of candidates: sessions with one session description, and
\* candidates of two texts
NextICE ==
    \/ \E caller \in Principal, callId \in CallIds, sdp \in {"s1"},
          callee \in Users : storeCallOffer(caller, callId, sdp, callee)
    \/ \E caller \in Principal, callId \in CallIds,
          candidate \in TaggedCandidates :
           TaggedRoom(callId) /\ addICECandidate(caller, callId, candidate)
    \/ \E caller \in Principal, callId \in CallIds : endCall(caller, callId)

SpecICE == Init /\ [][NextICE]_vars

\* groups of the fixed creator alone, created, written to and deleted
NextGroupMessageIds ==
    \/ \E caller \in Creators, name \in GroupNames, t \in {now} :
           nextGroupId < MaxGroupIds /\ createGroup(caller, name, t)
    \/ \E caller \in Principal, groupId \in GroupIds :
           deleteGroup(caller, groupId)
    \/ \E caller \in Principal, groupId \in GroupIds, content \in Contents,
          t \in {now} :
           nextGroupMessageId < MaxGroupMessageIds
               /\ sendGroupMessage(caller, groupId, content, t)

\* the three id counters, one component at a time
NextIds ==
    \/ GroupIdle /\ NextDM
    \/ DMIdle /\ NextGroupMessageIds

SpecIds == Init /\ [][NextIds]_vars

\* two sessions with the same callee: offers, answers of one session
\* description, and candidates
NextOffers ==
    \/ \E caller \in Principal, callId \in TwoCallIds, sdp \in Sdps,
          callee \in {"b"} : storeCallOffer(caller, callId, sdp, callee)
    \/ \E caller \in Principal, callId \in TwoCallIds, sdp \in {"s1"} :
           storeCallAnswer(caller, callId, sdp)
    \/ \E caller \in Principal, callId \in TwoCallIds,
          candidate \in Candidates :
           CandidateRoom(callId) /\ addICECandidate(caller, callId, candidate)

SpecOffers == Init /\ [][NextOffers]_vars

----------------------------------------------------------------------------
(* Properties                                                              *)

\* the unordered pair {sender, recipient} of a direct message
Endpoints(msg) == {msg.senderId, msg.recipientId}

\* the set of elements of a sequence
Range(xs) == {xs[i] : i \in 1..Len(xs)}

\* C1. Mirror invariant: whatever friend calls were served, successful or
\* failed, the status stored under A for B is the status stored under B for A
\* (both absent, both pending, both accepted or both declined).
C1_MirrorInvariant ==
    \A A \in Principal, B \in Principal :
        status(friendRequests, A, B) = status(friendRequests, B, A)

\* a request was answered and a pair is accepted
C1_Witness ==
    /\ last.op = "respondToFriendRequest" /\ last.res.ok
    /\ \E A \in Users, B \in Users :
           A # B /\ status(friendRequests, A, B) = Some("accepted")

\* C2. Follow symmetry: B is in following(A) exactly when A is in
\* followers(B), after any follows and unfollows, repeated or not.
C2_FollowSymmetry ==
    \A A \in Principal, B \in Principal :
        B \in getFollowing(A) <=> A \in getFollowers(B)

\* an unfollow was served and an edge of the graph is still there
C2_Witness ==
    /\ last.op = "unfollowUser" /\ last.res.ok
    /\ \E A \in Users, B \in Users :
           B \in getFollowing(A) /\ A \notin getFollowing(B)

\* C3. Group non-emptiness: every group in the group table has at least one
\* member (removing the sole remaining member is refused).
C3_GroupNeverEmpty ==
    \A g \in DOMAIN groups : Len(groups[g].memberIds) >= 1

\* C4. Call-session isolation: a call on an existing session by an identity
\* that is neither its offer.caller nor its offer.callee fails and leaves the
\* session as it was, and the queries of such an identity fail.
C4_CallIsolation ==
    [][\A c \in Principal, callId \in CallIds :
          (Has(videoCalls, callId) /\ notParticipant(videoCalls[callId], c)) =>
              /\ ~getCallOffer(c, callId).ok
              /\ ~getCallAnswer(c, callId).ok
              /\ \A p \in Users : ~getICECandidates(c, callId, p).ok
              /\ \A sdp \in Sdps, callee \in Users :
                     storeCallOffer(c, callId, sdp, callee) =>
                         ~last'.res.ok /\ videoCalls' = videoCalls
              /\ \A sdp \in Sdps :
                     storeCallAnswer(c, callId, sdp) =>
                         ~last'.res.ok /\ videoCalls' = videoCalls
              /\ \A candidate \in Candidates :
                     addICECandidate(c, callId, candidate) =>
                         ~last'.res.ok /\ videoCalls' = videoCalls
              /\ endCall(c, callId) =>
                     ~last'.res.ok /\ videoCalls' = videoCalls]_vars

\* C5. A call that ends in a trap leaves every store (friend requests,
\* followers and following, direct messages, groups, group messages, call
\* sessions and the id counters) exactly as it was.
C5_FailureLeavesStores ==
    [][~last'.res.ok => UNCHANGED stores]_vars

\* the creator tried to add a user who is a member already
C5_Witness ==
    /\ last.op = "addGroupMember"
    /\ last.res = Trap("User is already a member")
    /\ \E g \in DOMAIN groups : Len(groups[g].memberIds) >= 2

\* C6. respondToFriendRequest(from, accept) succeeds only when the caller's
\* entry for `from` is pending; with no entry, or an accepted or declined
\* one, it fails and the statuses on both sides stay as they were.
C6_RespondOnlyPending ==
    [][last'.op = "respondToFriendRequest" =>
          \A c \in Principal, f \in Users, accept \in BOOLEAN :
              respondToFriendRequest(c, f, accept) =>
                  /\ last'.res.ok =>
                         status(friendRequests, c, f) = Some("pending")
                  /\ status(friendRequests, c, f) # Some("pending") =>
                         /\ ~last'.res.ok
                         /\ status(friendRequests', c, f) =
                                status(friendRequests, c, f)
                         /\ status(friendRequests', f, c) =
                                status(friendRequests, f, c)]_vars

\* an answer to a request that was answered before was refused
C6_Witness ==
    /\ last.op = "respondToFriendRequest"
    /\ last.res = Trap("Friend request already processed")

\* C7. Friend flow: a served sendFriendRequest leaves the pair pending on
\* both sides; a served respondToFriendRequest leaves it accepted on both
\* sides and each in the other's getFriends when accept is true, declined on
\* both sides and neither in the other's getFriends when it is false; and B
\* is in getFriends(A) exactly when the pair's status is accepted.
C7_FriendFlow ==
    [][/\ (last'.op = "sendFriendRequest" /\ last'.res.ok) =>
              \A A \in Users, B \in Users :
                  sendFriendRequest(A, B) =>
                      /\ status(friendRequests', A, B) = Some("pending")
                      /\ status(friendRequests', B, A) = Some("pending")
       /\ (last'.op = "respondToFriendRequest" /\ last'.res.ok) =>
              \A A \in Users, B \in Users :
                  /\ respondToFriendRequest(B, A, TRUE) =>
                         /\ status(friendRequests', A, B) = Some("accepted")
                         /\ status(friendRequests', B, A) = Some("accepted")
                         /\ B \in getFriends(A)' /\ A \in getFriends(B)'
                  /\ respondToFriendRequest(B, A, FALSE) =>
                         /\ status(friendRequests', A, B) = Some("declined")
                         /\ status(friendRequests', B, A) = Some("declined")
                         /\ B \notin getFriends(A)' /\ A \notin getFriends(B)'
       /\ \A A \in Principal, B \in Principal :
              B \in getFriends(A)' <=>
                  /\ status(friendRequests', A, B) = Some("accepted")
                  /\ status(friendRequests', B, A) = Some("accepted")]_vars

\* a request was accepted and the two are friends of each other
C7_Witness ==
    /\ last.op = "respondToFriendRequest" /\ last.res.ok
    /\ \E A \in Users, B \in Users :
           A # B /\ B \in getFriends(A) /\ A \in getFriends(B)

\* C8. Conversation completeness: getConversation(B) called by A returns
\* exactly the stored messages whose {sender, recipient} is {A, B}, each
\* once, and none with a third identity at either end; a stored message is in
\* the conversation of its own pair and of no other pair.
C8_ConversationComplete ==
    \A A \in Users, B \in Users :
        LET conv == getConversation(A, B).val
        IN  /\ getConversation(A, B).ok
            /\ Range(conv) = {directMessages[k] : k \in
                                 {j \in DOMAIN directMessages :
                                      Endpoints(directMessages[j]) = {A, B}}}
            /\ \A i \in 1..Len(conv), j \in 1..Len(conv) :
                   conv[i].id = conv[j].id => i = j
            /\ \A i \in 1..Len(conv) :
                   conv[i].senderId \in {A, B} /\ conv[i].recipientId \in {A, B}
            /\ \A k \in DOMAIN directMessages :
                   directMessages[k] \in Range(conv) <=>
                       Endpoints(directMessages[k]) = {A, B}

\* two messages are stored, one between A and B and one between A and C
C8_Witness ==
    /\ last.op = "sendMessage" /\ last.res.ok
    /\ \E A \in Users, B \in Users, C \in Users :
           /\ Cardinality({A, B, C}) = 3
           /\ Len(getConversation(A, B).val) = 1
           /\ Len(getConversation(C, A).val) = 1

\* C9. Conversation ordering: the conversation thread shows the messages of
\* getConversation ascending by timestamp; of two messages of a pair the one
\* with the smaller timestamp comes first, from either side.
C9_ConversationOrdered ==
    \A A \in Users, B \in Users :
        LET conv   == getConversation(A, B).val
            thread == ConversationThread(A, B)
        IN  /\ Len(thread) = Len(conv) /\ Range(thread) = Range(conv)
            /\ \A i \in 1..Len(thread), j \in 1..Len(thread) :
                   i < j => thread[i].timestamp <= thread[j].timestamp
            /\ \A i \in 1..Len(thread), j \in 1..Len(thread) :
                   thread[i].timestamp < thread[j].timestamp => i < j
            /\ thread = ConversationThread(B, A)

\* A wrote to B at time 0, B wrote back later, and the thread shows the
\* two messages in that order
C9_Witness ==
    \E A \in Users, B \in Users :
        LET thread == ConversationThread(A, B)
        IN  /\ A # B /\ Len(thread) = 2
            /\ thread[1].senderId = A /\ thread[2].senderId = B
            /\ thread[1].timestamp < thread[2].timestamp

\* the stored messages to C that are unread
Unread(dm, C) == {k \in DOMAIN dm : dm[k].recipientId = C /\ ~dm[k].read}

\* getUnreadMessageCount() called by C is the number of unread messages to C
CountIsUnread ==
    \A C \in Users :
        getUnreadMessageCount(C) = QOk(Cardinality(Unread(directMessages, C)))

\* C10. Unread count: getUnreadMessageCount() called by C is the number of
\* stored messages to C that are unread; a sendMessage to C raises it by one
\* and changes nobody else's (a sender's own count only when the sender is
\* the recipient); after markConversationRead(X) by C no unread message from
\* X to C remains, and every other message is as it was.
C10_UnreadCount ==
    /\ CountIsUnread
    /\ [][/\ directMessages' # directMessages => CountIsUnread'
          /\ (last'.op = "sendMessage" /\ last'.res.ok) =>
                 \A S \in Users, R \in Users, content \in Contents,
                    t \in Clock :
                     sendMessage(S, R, content, t) =>
                         \A C \in Users :
                             getUnreadMessageCount(C)'.val =
                                 getUnreadMessageCount(C).val
                                     + (IF C = R THEN 1 ELSE 0)
          /\ (last'.op = "markConversationRead" /\ last'.res.ok) =>
                 \A C \in Users, X \in Users :
                     markConversationRead(C, X) =>
                         \A k \in DOMAIN directMessages' :
                             IF /\ directMessages[k].senderId = X
                                /\ directMessages[k].recipientId = C
                             THEN directMessages'[k].read
                             ELSE directMessages'[k] = directMessages[k]]_vars

\* C read the only message it had received: the count went from 1 to 0
C10_Witness ==
    /\ last.op = "markConversationRead" /\ last.res.ok
    /\ \E C \in Users :
           /\ getUnreadMessageCount(C).val = 0
           /\ \E k \in DOMAIN directMessages :
                  directMessages[k].recipientId = C /\ directMessages[k].read

\* C11. Idempotent read-marking: for every store and all identities C and X,
\* the store that markConversationRead(X) by C writes is one that the same
\* call writes again unchanged; the store a served call leaves is that store.
C11_MarkReadIdempotent ==
    [][\A C \in Users, X \in Users :
          LET once  == markReadWrites(directMessages, C, X)
              once1 == markReadWrites(directMessages', C, X)
          IN  /\ markReadWrites(once, C, X) = once
              /\ markReadWrites(once1, C, X) = once1
              /\ markConversationRead(C, X) =>
                     /\ directMessages' = once
                     /\ markReadWrites(directMessages', C, X) = directMessages']_vars

\* C marked the conversation with X as read, which changed a message, while
\* a message of another conversation is still unread
C11_Witness ==
    /\ last.op = "markConversationRead" /\ last.res.ok
    /\ \E j \in DOMAIN directMessages, k \in DOMAIN directMessages :
           directMessages[j].read /\ ~directMessages[k].read

\* the two participants of a session
Participants(call) == {call.offer.caller, call.offer.callee}

\* C12. endCall(callId) by either participant of an existing session is
\* served and removes the whole session: getCallOffer and getCallAnswer then
\* return null and getICECandidates the empty list, for both participants;
\* endCall on a callId without a session fails and changes nothing.
C12_EndCall ==
    [][last'.op = "endCall" =>
          \A c \in Principal, callId \in CallIds :
              endCall(c, callId) =>
                  /\ (Has(videoCalls, callId) /\ hasPermission(c)
                          /\ c \in Participants(videoCalls[callId])) =>
                         /\ last'.res.ok
                         /\ ~Has(videoCalls', callId)
                         /\ \A p \in Participants(videoCalls[callId]) :
                                /\ getCallOffer(p, callId)' = QOk(None)
                                /\ getCallAnswer(p, callId)' = QOk(None)
                                /\ \A q \in Users :
                                       getICECandidates(p, callId, q)' =
                                           QOk(<< >>)
                  /\ ~Has(videoCalls, callId) =>
                         /\ ~last'.res.ok
                         /\ videoCalls' = videoCalls]_vars

\* an endCall was served and no session is left
C12_Witness ==
    /\ last.op = "endCall" /\ last.res.ok
    /\ videoCalls = EmptyMap
    /\ \A p \in Users, callId \in CallIds : getCallOffer(p, callId) = QOk(None)

\* C13. Call rendezvous without expiry: while a session exists and no endCall
\* or storeCallOffer is served, its callee keeps getting the same offer from
\* getCallOffer and, once an answer is stored, the maker of the offer keeps
\* getting that same answer from getCallAnswer.
C13_Rendezvous ==
    [][\A callId \in CallIds :
          (/\ Has(videoCalls, callId)
           /\ ~(last'.res.ok /\ last'.op \in {"endCall", "storeCallOffer"})) =>
              LET call == videoCalls[callId]
              IN  /\ Has(videoCalls', callId)
                  /\ getCallOffer(call.offer.callee, callId)' =
                         QOk(Some(call.offer))
                  /\ call.answer # None =>
                         getCallAnswer(call.offer.caller, callId)' =
                             QOk(call.answer)]_vars

\* C14. getICECandidates(callId, P) called by a participant returns exactly
\* the candidates P added to the session, in the order P added them: a new
\* session has none, a served addICECandidate by c appends its candidate to
\* what is returned for c and leaves what is returned for anyone else, and no
\* other call changes what is returned.  Every stored candidate carries the
\* identity that added it, which is a participant.
C14_ICECandidates ==
    [][\A callId \in CallIds :
          /\ Has(videoCalls', callId) =>
                 \A i \in 1..Len(videoCalls'[callId].candidates) :
                     videoCalls'[callId].candidates[i].tenant \in
                         Participants(videoCalls'[callId])
          /\ (last'.op = "storeCallOffer" /\ last'.res.ok) =>
                 \A x \in Participants(videoCalls'[callId]), P \in Users :
                     getICECandidates(x, callId, P)' = QOk(<< >>)
          /\ (last'.op = "addICECandidate" /\ last'.res.ok) =>
                 \A c \in Users, k \in TaggedCandidates :
                     addICECandidate(c, callId, k) =>
                         /\ c \in Participants(videoCalls[callId])
                         /\ videoCalls'[callId].candidates =
                                Append(videoCalls[callId].candidates,
                                       [candidate |-> k, tenant |-> c])
                         /\ \A x \in Participants(videoCalls[callId]),
                               P \in Users :
                                getICECandidates(x, callId, P)' =
                                    QOk(IF P = c
                                        THEN Append(getICECandidates(
                                                        x, callId, P).val, k)
                                        ELSE getICECandidates(
                                                 x, callId, P).val)
          /\ (/\ Has(videoCalls, callId)
              /\ ~(/\ last'.res.ok
                   /\ last'.op \in {"storeCallOffer", "addICECandidate",
                                    "endCall"})) =>
                 \A x \in Participants(videoCalls[callId]), P \in Users :
                     getICECandidates(x, callId, P)' =
                         getICECandidates(x, callId, P)]_vars

\* both participants added a candidate: each one's list holds its own
\* candidate and not the other's
C14_Witness ==
    /\ last.op = "addICECandidate" /\ last.res.ok
    /\ \E callId \in DOMAIN videoCalls, A \in Users, B \in Users :
           /\ A # B /\ Participants(videoCalls[callId]) = {A, B}
           /\ getICECandidates(A, callId, A) = QOk(<<"k1">>)
           /\ getICECandidates(A, callId, B) = QOk(<<"k2">>)

\* C15. storeCallAnswer(callId, sdp) is served exactly when the session
\* exists and the caller is its offer.callee: the maker of the offer, a third
\* identity and a call on an absent session are refused and change nothing.
\* A served call sets the answer to the caller's sdp and leaves the offer
\* and the candidate list of the session as they were.
C15_StoreCallAnswer ==
    [][last'.op = "storeCallAnswer" =>
          \A c \in Principal, callId \in CallIds, sdp \in Sdps :
              storeCallAnswer(c, callId, sdp) =>
                  /\ last'.res.ok <=>
                         /\ hasPermission(c)
                         /\ Has(videoCalls, callId)
                         /\ videoCalls[callId].offer.callee = c
                  /\ last'.res.ok =>
                         /\ getCallAnswer(c, callId)'.ok
                         /\ getCallAnswer(c, callId)'.val # None
                         /\ getCallAnswer(c, callId)'.val[1].sdp = sdp
                         /\ getCallAnswer(c, callId)'.val[1].callee = c
                         /\ videoCalls'[callId].offer = videoCalls[callId].offer
                         /\ videoCalls'[callId].candidates =
                                videoCalls[callId].candidates
                  /\ ~last'.res.ok => videoCalls' = videoCalls]_vars

\* the callee answered a session that held a candidate already
C15_Witness ==
    /\ last.op = "storeCallAnswer" /\ last.res.ok
    /\ \E callId \in DOMAIN videoCalls :
           /\ videoCalls[callId].answer # None
           /\ videoCalls[callId].candidates # << >>
           /\ videoCalls[callId].offer.caller # videoCalls[callId].offer.callee

\* C16. removeGroupMember is creator-or-self: on a group with more than one
\* member the creator removing a member, and a member removing itself, are
\* served and the member is gone; a caller who is neither the creator nor the
\* member named is refused.
C16_RemoveCreatorOrSelf ==
    [][last'.op = "removeGroupMember" =>
          \A c \in Users, g \in DOMAIN groups, m \in Users :
              removeGroupMember(c, g, m) =>
                  /\ (/\ isMember(groups[g], m)
                      /\ Len(groups[g].memberIds) > 1
                      /\ (c = groups[g].creatorId \/ c = m)) =>
                         /\ last'.res.ok
                         /\ ~isMember(groups'[g], m)
                  /\ (c # groups[g].creatorId /\ c # m) =>
                         /\ ~last'.res.ok
                         /\ groups' = groups]_vars

\* C17. removeGroupMember(g, m) on an existing group of which m is not a
\* member fails and leaves the group as it was.
C17_RemoveNonMemberFails ==
    [][last'.op = "removeGroupMember" =>
          \A c \in Principal, g \in DOMAIN groups, m \in Users :
              (removeGroupMember(c, g, m) /\ ~isMember(groups[g], m)) =>
                  /\ ~last'.res.ok
                  /\ groups' = groups]_vars

\* no identity is twice in the member list of a group
NoDuplicateMembers ==
    \A g \in DOMAIN groups :
        \A i \in 1..Len(groups[g].memberIds), j \in 1..Len(groups[g].memberIds) :
            groups[g].memberIds[i] = groups[g].memberIds[j] => i = j

\* C18. addGroupMember(g, m) is served only for the creator of g and only
\* when m is not a member, and then appends m: a call by anyone else, or for
\* an existing member, is therefore not served, and a call that is not
\* served changes no group.  No identity is ever twice in a member list.
C18_AddGroupMember ==
    /\ NoDuplicateMembers
    /\ [][/\ groups' # groups => NoDuplicateMembers'
          /\ (last'.op = "addGroupMember" /\ ~last'.res.ok) =>
                 groups' = groups
          /\ (last'.op = "addGroupMember" /\ last'.res.ok) =>
                 \A c \in Principal, g \in DOMAIN groups, m \in Users :
                     addGroupMember(c, g, m) =>
                         /\ c = groups[g].creatorId
                         /\ ~isMember(groups[g], m)
                         /\ groups'[g].memberIds =
                                Append(groups[g].memberIds, m)]_vars

\* the creator added a third member to a group
C18_Witness ==
    /\ last.op = "addGroupMember" /\ last.res.ok
    /\ \E g \in DOMAIN groups :
           /\ Len(groups[g].memberIds) = 3
           /\ Cardinality(Range(groups[g].memberIds)) = 3

\* the ids of the groups that were created and then deleted
DeletedGroups == {g \in 0..(nextGroupId - 1) : ~Has(groups, g)}

\* C19. deleteGroup(g) is served exactly for the creator of g and for an
\* administrator, and refused, changing nothing, for every other member or
\* non-member.  A deleted group stays deleted: getGroupById(g) returns it to
\* no caller, getGroupMessages on g fails and sendGroupMessage on g fails.
C19_DeleteGroup ==
    [][/\ last'.op = "deleteGroup" =>
              \A c \in Principal, g \in GroupIds :
                  deleteGroup(c, g) =>
                      /\ last'.res.ok <=>
                             /\ hasPermission(c)
                             /\ Has(groups, g)
                             /\ (c = groups[g].creatorId \/ isAdmin(c))
                      /\ last'.res.ok => g \in DeletedGroups'
                      /\ ~last'.res.ok => groups' = groups
       /\ DeletedGroups \subseteq DeletedGroups'
       /\ \A g \in DeletedGroups', x \in Principal :
              /\ getGroupById(x, g)'.val = None
              /\ ~getGroupMessages(x, g)'.ok
       /\ last'.op = "sendGroupMessage" =>
              \A g \in DeletedGroups, x \in Principal,
                 content \in Contents, t \in Clock :
                  sendGroupMessage(x, g, content, t) =>
                      /\ ~last'.res.ok
                      /\ groupMessages' = groupMessages]_vars

\* the first group was deleted while a message of it is stored, and the
\* second group exists
C19_Witness ==
    /\ last.op = "deleteGroup" /\ last.res.ok
    /\ 0 \in DeletedGroups /\ Has(groups, 1)
    /\ \E k \in DOMAIN groupMessages : groupMessages[k].groupId = 0

\* C20. sendGroupMessage(g, content) is served exactly when g exists and the
\* caller is in its member list at that moment; an identity that was removed
\* or never added is refused and stores nothing.  Group messages are stored
\* by sendGroupMessage only, and the sender of every message that gets
\* stored is then a member of the message's group.
C20_SendGroupMessage ==
    [][/\ last'.op = "sendGroupMessage" =>
              \A x \in Principal, g \in GroupIds, content \in Contents,
                 t \in Clock :
                  sendGroupMessage(x, g, content, t) =>
                      /\ last'.res.ok <=>
                             /\ hasPermission(x)
                             /\ Has(groups, g)
                             /\ isMember(groups[g], x)
                      /\ last'.res.ok =>
                             /\ DOMAIN groupMessages' =
                                    DOMAIN groupMessages \cup {last'.res.ret}
                             /\ groupMessages'[last'.res.ret].senderId = x
                             /\ groupMessages'[last'.res.ret].groupId = g
                      /\ ~last'.res.ok => groupMessages' = groupMessages
       /\ groupMessages' # groupMessages =>
              last'.op = "sendGroupMessage" /\ last'.res.ok
       /\ \A k \in DOMAIN groupMessages' \ DOMAIN groupMessages :
              /\ Has(groups, groupMessages'[k].groupId)
              /\ isMember(groups[groupMessages'[k].groupId],
                          groupMessages'[k].senderId)]_vars

\* a member who is not the creator of the group sent a message to it
C20_Witness ==
    /\ last.op = "sendGroupMessage" /\ last.res.ok
    /\ \E k \in DOMAIN groupMessages :
           /\ Has(groups, groupMessages[k].groupId)
           /\ groupMessages[k].senderId #
                  groups[groupMessages[k].groupId].creatorId
           /\ isMember(groups[groupMessages[k].groupId],
                       groupMessages[k].senderId)

\* C21. Group read authorization: on an existing group, getGroupById and
\* getGroupMessages called by an identity that is not in the member list,
\* a former member included, trap with an authorization error and return
\* nothing; a member gets the group and its messages.  For a caller with the
\* #user permission the outcome on a group that does not exist, null from
\* getGroupById and "Group not found" from getGroupMessages, differs from
\* that error.
C21_GroupReadAuthorization ==
    /\ \A g \in DOMAIN groups, x \in Principal :
           IF isMember(groups[g], x) /\ hasPermission(x)
           THEN /\ getGroupById(x, g) = QOk(Some(groups[g]))
                /\ getGroupMessages(x, g).ok
                /\ \A m \in Range(getGroupMessages(x, g).val) : m.groupId = g
           ELSE /\ ~getGroupById(x, g).ok
                /\ getGroupById(x, g).val = None
                /\ ~getGroupMessages(x, g).ok
                /\ getGroupMessages(x, g).val = None
                /\ hasPermission(x) =>
                       /\ getGroupById(x, g).err =
                              "Unauthorized: Only group members can view this group"
                       /\ getGroupMessages(x, g).err =
                              "Unauthorized: Only group members can read messages"
    /\ \A g \in GroupIds \ DOMAIN groups, x \in Users :
           /\ getGroupById(x, g) = QOk(None)
           /\ getGroupMessages(x, g) = QTrap("Group not found")

\* a member wrote to the group and was removed from it: the former member
\* can read neither the group nor its own message
C21_Witness ==
    \E k \in DOMAIN groupMessages :
        LET g == groupMessages[k].groupId
            x == groupMessages[k].senderId
        IN  /\ Has(groups, g) /\ ~isMember(groups[g], x)
            /\ ~getGroupById(x, g).ok /\ ~getGroupMessages(x, g).ok

\* the identities named as `from` in what getPendingFriendRequests returns
PendingFrom(C) ==
    {r.from : r \in Range(getPendingFriendRequests(C, now).val)}

\* C22. getPendingFriendRequests() called by C returns the identities whose
\* pending request is directed at C: when C sends X a first request, C is in
\* the pending list of X, and X, who sent nothing, is not in the list of C.
C22_PendingIncomingOnly ==
    [][(last'.op = "sendFriendRequest" /\ last'.res.ok) =>
          \A C \in Users, X \in Users :
              (/\ sendFriendRequest(C, X)
               /\ status(friendRequests, C, X) = None
               /\ status(friendRequests, X, C) = None) =>
                  /\ C \in PendingFrom(X)'
                  /\ X \notin PendingFrom(C)']_vars

\* C23. Accepted and declined are terminal: once the status of a pair is
\* accepted or declined, no call by any identity changes it.
C23_TerminalStatus ==
    [][\A A \in Users, B \in Users :
          status(friendRequests, A, B) \in {Some("accepted"), Some("declined")}
              => status(friendRequests', A, B) = status(friendRequests, A, B)]_vars

\* C24. The creator of every existing group is in the member list of that
\* group.
C24_CreatorIsMember ==
    \A g \in DOMAIN groups : isMember(groups[g], groups[g].creatorId)

\* C25. sendFriendRequest(B) by a user A other than B is always served and
\* leaves the pair pending on both sides, whatever its status was (none,
\* pending, accepted or declined); the status of every other pair is as it
\* was; and a pair that has a status never goes back to having none.
C25_SendOverwrites ==
    [][/\ last'.op = "sendFriendRequest" =>
              \A A \in Users, B \in Users :
                  (A # B /\ sendFriendRequest(A, B)) =>
                      /\ last'.res.ok
                      /\ status(friendRequests', A, B) = Some("pending")
                      /\ status(friendRequests', B, A) = Some("pending")
                      /\ \A P \in Principal, Q \in Principal :
                             {P, Q} # {A, B} =>
                                 status(friendRequests', P, Q) =
                                     status(friendRequests, P, Q)
       /\ \A P \in Principal, Q \in Principal :
              status(friendRequests, P, Q) # None =>
                  status(friendRequests', P, Q) # None]_vars

\* a request was served that left one pair pending while another pair is
\* accepted and a third declined
C25_Witness ==
    /\ last.op = "sendFriendRequest" /\ last.res.ok
    /\ \E A \in Users, B \in Users, C \in Users :
           /\ status(friendRequests, A, B) = Some("pending")
           /\ status(friendRequests, A, C) = Some("accepted")
           /\ status(friendRequests, B, C) = Some("declined")

\* C26. storeCallOffer(callId, sdp, callee) by a user is always served and
\* leaves under callId a session whose offer is (sdp, caller, callee), whose
\* answer is absent and whose candidate list is empty, whether a session
\* existed or not and whatever it held; the sessions under the other callIds
\* are as they were.
C26_StoreCallOffer ==
    [][last'.op = "storeCallOffer" =>
          \A c \in Users, callId \in TwoCallIds, sdp \in Sdps,
             callee \in Users :
              storeCallOffer(c, callId, sdp, callee) =>
                  LET offer == [sdp |-> sdp, caller |-> c, callee |-> callee]
                  IN  /\ last'.res.ok
                      /\ Has(videoCalls', callId)
                      /\ videoCalls'[callId].offer = offer
                      /\ getCallOffer(c, callId)' = QOk(Some(offer))
                      /\ getCallAnswer(c, callId)' = QOk(None)
                      /\ videoCalls'[callId].candidates = << >>
                      /\ \A P \in Users :
                             getICECandidates(c, callId, P)' = QOk(<< >>)
                      /\ \A other \in TwoCallIds \ {callId} :
                             /\ Has(videoCalls', other) <=>
                                    Has(videoCalls, other)
                             /\ Has(videoCalls, other) =>
                                    videoCalls'[other] = videoCalls[other]]_vars

\* an offer was stored and left a new session, while the other session
\* holds an answer and a candidate
C26_Witness ==
    /\ last.op = "storeCallOffer" /\ last.res.ok
    /\ \E x \in TwoCallIds, y \in TwoCallIds :
           /\ Has(videoCalls, x) /\ Has(videoCalls, y)
           /\ videoCalls[x].answer = None /\ videoCalls[x].candidates = << >>
           /\ videoCalls[y].answer # None /\ videoCalls[y].candidates # << >>

\* C27. A stored direct message is never removed and its id, sender,
\* recipient, content and timestamp never change; it is stored unread, its
\* read flag only goes from false to true, and only in a served
\* markConversationRead(sender) called by its recipient.
C27_MessageImmutable ==
    [][/\ \A k \in DOMAIN directMessages :
              /\ Has(directMessages', k)
              /\ [directMessages'[k] EXCEPT !.read = FALSE] =
                     [directMessages[k] EXCEPT !.read = FALSE]
              /\ directMessages[k].read => directMessages'[k].read
              /\ directMessages'[k].read # directMessages[k].read =>
                     /\ last'.op = "markConversationRead" /\ last'.res.ok
                     /\ markConversationRead(directMessages[k].recipientId,
                                             directMessages[k].senderId)
       /\ \A k \in DOMAIN directMessages' \ DOMAIN directMessages :
              /\ ~directMessages'[k].read
              /\ directMessages'[k].id = k
              /\ last'.op = "sendMessage" /\ last'.res.ok]_vars

\* a message that its recipient has read is followed by a later message
\* of the same sender to the same recipient, which is unread
C27_Witness ==
    /\ last.op = "sendMessage" /\ last.res.ok
    /\ \E j \in DOMAIN directMessages, k \in DOMAIN directMessages :
           /\ j < k
           /\ Endpoints(directMessages[j]) = Endpoints(directMessages[k])
           /\ directMessages[j].senderId = directMessages[k].senderId
           /\ directMessages[j].senderId # directMessages[j].recipientId
           /\ directMessages[j].read /\ ~directMessages[k].read

\* the keys of a store are the ids of its records and lie below the counter
\* the ids are taken from
IdsBelow(store, counter) ==
    \A k \in DOMAIN store : k < counter /\ store[k].id = k

\* a call of `op` that is served returns the counter, which no stored record
\* has as its id, and advances it by one; a call that fails leaves it
FreshId(op, counter, counter1, store, store1) ==
    /\ counter1 >= counter
    /\ counter1 # counter => last'.op = op /\ last'.res.ok
    /\ last'.op = op =>
           IF last'.res.ok
           THEN /\ last'.res.ret = counter
                /\ counter1 = counter + 1
                /\ ~Has(store, counter) /\ Has(store1, counter)
           ELSE counter1 = counter /\ store1 = store

\* C28. Ids are fresh and monotonic: a served sendMessage returns an id that
\* is greater than every id returned before and that no stored message has,
\* a failed sendMessage consumes no id, and no two stored messages share an
\* id; the same for the ids of sendGroupMessage and of createGroup.
C28_FreshIds ==
    [][/\ IdsBelow(directMessages, nextMessageId)'
       /\ IdsBelow(groupMessages, nextGroupMessageId)'
       /\ IdsBelow(groups, nextGroupId)'
       /\ FreshId("sendMessage", nextMessageId, nextMessageId',
                  directMessages, directMessages')
       /\ FreshId("sendGroupMessage", nextGroupMessageId, nextGroupMessageId',
                  groupMessages, groupMessages')
       /\ FreshId("createGroup", nextGroupId, nextGroupId',
                  groups, groups')]_vars

\* the second group message got the id 1, in the second group, after the
\* first group was deleted
C28_Witness ==
    /\ last = Call("sendGroupMessage", Ok(1))
    /\ DOMAIN groupMessages = {0, 1}
    /\ DOMAIN groups = {1}

\* C29. Racing responses: while the pair (A, B) is pending either of the two
\* may answer, and the answer that is served first sets the status of both
\* sides to its value; once the pair is accepted or declined an answer of
\* either of them fails with "Friend request already processed" and changes
\* nothing; after an answer the two sides never hold different statuses.
C29_RacingResponses ==
    [][last'.op = "respondToFriendRequest" =>
          \A A \in Users, B \in Users, accept \in BOOLEAN :
              (A # B /\ respondToFriendRequest(A, B, accept)) =>
                  LET s  == IF accept THEN "accepted" ELSE "declined"
                      ab == status(friendRequests, A, B)
                      ba == status(friendRequests, B, A)
                  IN  /\ (ab = Some("pending") /\ ba = Some("pending")) =>
                             /\ last'.res.ok
                             /\ status(friendRequests', A, B) = Some(s)
                             /\ status(friendRequests', B, A) = Some(s)
                      /\ (ab = ba /\ ab \in {Some("accepted"),
                                              Some("declined")}) =>
                             /\ last'.res =
                                    Trap("Friend request already processed")
                             /\ friendRequests' = friendRequests
                      /\ status(friendRequests', A, B) =
                             status(friendRequests', B, A)]_vars

\* the later answer to a pair that the earlier answer declined was refused
\* and the pair is declined on both sides
C29_Witness ==
    /\ last.op = "respondToFriendRequest"
    /\ last.res = Trap("Friend request already processed")
    /\ \E A \in Users, B \in Users :
           /\ A # B
           /\ status(friendRequests, A, B) = Some("declined")
           /\ status(friendRequests, B, A) = Some("declined")

\* C30. Group ids are never reused: createGroup returns an id that no group,
\* stored or deleted, had before, and no stored message names it, so the new
\* group has no messages although deleteGroup leaves the messages of the
\* deleted group in the store; a served sendGroupMessage stores its message
\* under the group it was sent to, stored messages stay as they are, and
\* getGroupMessages(h) returns only stored messages of group h.
C30_GroupIdsNotReused ==
    [][/\ (last'.op = "createGroup" /\ last'.res.ok) =>
              /\ last'.res.ret \in GroupIds
              /\ \A g \in GroupIds, x \in Principal :
                     g = last'.res.ret =>
                         /\ g \notin DeletedGroups /\ ~Has(groups, g)
                         /\ Has(groups', g)
                         /\ \A k \in DOMAIN groupMessages' :
                                groupMessages'[k].groupId # g
                         /\ x = groups'[g].creatorId =>
                                getGroupMessages(x, g)' = QOk(<< >>)
       /\ (last'.op = "sendGroupMessage" /\ last'.res.ok) =>
              \A c \in Principal, g \in GroupIds, content \in Contents,
                 t \in Clock :
                  sendGroupMessage(c, g, content, t) =>
                      /\ Has(groups, g)
                      /\ groupMessages'[last'.res.ret].groupId = g
       /\ \A k \in DOMAIN groupMessages :
              Has(groupMessages', k) /\ groupMessages'[k] = groupMessages[k]
       /\ \A h \in DOMAIN groups', x \in Principal :
              LET r == getGroupMessages(x, h)'
              IN  r.ok => \A i \in 1..Len(r.val) :
                              /\ r.val[i].groupId = h
                              /\ Has(groupMessages', r.val[i].id)
                              /\ groupMessages'[r.val[i].id] = r.val[i]]_vars

\* the second group was created after the first, which has a message in the
\* store, was deleted, and it has no messages
C30_Witness ==
    /\ last = Call("createGroup", Ok(1))
    /\ 0 \in DeletedGroups
    /\ \E k \in DOMAIN groupMessages : groupMessages[k].groupId = 0
    /\ getGroupMessages("a", 1) = QOk(<< >>)

====
